---- MODULE Spec2Model ----
(***************************************************************************)
(* TurtleBotNavEnv (turtlebot4_rl/nav_env.py): the episodic environment    *)
(* that turns the pose and laser-scan callbacks of a ROS node into         *)
(* reset/step results.                                                     *)
(*                                                                         *)
(* Fixed point.  Positions, distances and the two thresholds on them are    *)
(* integers in units of 1e-7 m (1.0 is 10000000, 0.5 is 5000000, 0.01 is   *)
(* 100000), which is the resolution of a float32 near 1 m; ranges and      *)
(* velocities are integers in thousandths (0.5 is 500); rewards are in     *)
(* tenths (a penalty of 100.0 is 1000), which float32 rounding leaves      *)
(* alone but for a reward halfway between two tenths.  Angles are integers *)
(* in degrees (math.pi is 180).                                            *)
(*                                                                         *)
(* float32.  The positions, the odometry offset and the norms of the code  *)
(* are float32 (lines 49-51, 111-114, 131).  The start and the goal are    *)
(* the units nearest to the float32 of the arguments (Float32).  A value   *)
(* the code computes and casts to float32 is, in the model, the exact      *)
(* value plus an error that any build of numpy can produce                 *)
(* (Float32Errors); a comparison of float32 norms                          *)
(* that lie within their rounding of each other can come out either way    *)
(* (FloatBelow), and a reward is the tenth nearest to a value within the   *)
(* rounding of the two distances it is computed from (RewardErrors).       *)
(***************************************************************************)
EXTENDS Integers, Sequences, FiniteSets, TLC

VARIABLES
    self,           \* the fields of the TurtleBotNavEnv object
    pc,             \* where the caller's thread is: idle, reset_calib, reset_wait, step_wait, closed
    initial_state,  \* the local initial_state of _wait_for_new_state (identity of the array held)
    ticks,          \* spin_once slices used by the wait in progress
    cmd_vel,        \* the messages published on /cmd_vel by the call in progress (or the last call)
    ret,            \* what the last call returned or raised
    pre,            \* the episode fields as they were when the call in progress (or the last call) began
    episode,        \* per successful step since the last reset call (or the initial state): was the observation colliding
    first_pose,     \* the first pose sample delivered since the last calibration began
    last_pose,      \* the last pose sample delivered
    episode_ok,     \* construction or the last reset call returned successfully
    call_log,       \* of the call in progress (or the last call): the set_pose requests made, where callbacks ran, the scans taken by _wait_for_new_state, the outcomes of the stationary and the goal comparison
    latched,        \* a step has returned terminated = true since the last reset call
    calls           \* API calls made so far

vars == <<self, pc, initial_state, ticks, cmd_vel, ret, pre, episode,
          first_pose, last_pose, episode_ok, call_log, latched, calls>>

-----------------------------------------------------------------------------
(* Bounds of the model *)

\* API calls (reset, step, close) in one behaviour
MaxCalls == 3
\* API calls in one behaviour of the still robot (SpecStill)
MaxStillCalls == 6
\* API calls in one behaviour that starts inside an episode (SpecMid)
MaxMidCalls == 2
\* API calls in one behaviour of the thread that keeps running (SpecLive)
MaxLiveCalls == 3
\* API calls in one behaviour of the calibration with rounding (SpecAnchor)
MaxAnchorCalls == 2
\* spin_once slices that fit before a wait's deadline
MaxSlices == 2

-----------------------------------------------------------------------------
(* Program constants *)

Pi == 180
max_steps_without_improvement == 10000
stationary_threshold == 100000
max_stationary_steps == 100
alpha == 10000
beta == 10000
collision_penalty == 1000
step_penalty == 1
stationary_penalty == 500
collision_threshold == 500
goal_threshold == 5000000
collision_limit == 10
desired_yaw == -(Pi \div 2)

\* the action_space bounds of the continuous mode
linear_bound == 3000
angular_bound == 1500
\* the speed of the discrete actions
discrete_speed == 500

\* Units of 1e-7 m to a thousandth
DistanceUnits == 10000

\* the constructor's arguments
start_position == <<0, 0>>
goal_position == <<600 * DistanceUnits, 800 * DistanceUnits>>

-----------------------------------------------------------------------------
(* Inputs *)

\* A raw pose sample: the position and the yaw of an Odometry message.  The
\* positions lie on one line through the raw origin (0.070, -0.020), direction
\* (3, 4), k times 0.005 along it, so that every distance to the goal is a
\* whole number of thousandths.
RawPose(k, yaw) ==
    [pos |-> <<(70 + 3 * k) * DistanceUnits, (-20 + 4 * k) * DistanceUnits>>,
     yaw |-> yaw]
RawPoses == {RawPose(0, 0), RawPose(1, -90), RawPose(2, 180)}
NoPose == [pos |-> <<>>, yaw |-> 0]

\* The ranges of a LaserScan message
ScanSamples == {<<700, 900>>, <<700, 300>>, <<500, 700>>}

\* The actions a caller passes to step
DiscreteActions == 0 .. 3
ContinuousActions == {<<0, 0>>, <<3000, -1500>>, <<5000, 2000>>, <<-3001, 100>>}

-----------------------------------------------------------------------------
(* Helpers *)

\* The integer square root of s, by Newton's iteration from x >= sqrt(s), x > 0
RECURSIVE SqrtFrom(_, _)
SqrtFrom(s, x) ==
    LET y == (x + s \div x) \div 2
    IN IF y >= x THEN x ELSE SqrtFrom(s, y)

Abs(x) == IF x < 0 THEN -x ELSE x

\* The digits of x to the base 10000, lowest first, the highest taking the
\* sign
Limbs(x) == <<x % 10000, (x \div 10000) % 10000, x \div 100000000>>

\* The digits of the product of the numbers whose digits are X and Y, lowest
\* first and not carried over
LimbProduct(X, Y) ==
    <<X[1] * Y[1],
      X[1] * Y[2] + X[2] * Y[1],
      X[1] * Y[3] + X[2] * Y[2] + X[3] * Y[1],
      X[2] * Y[3] + X[3] * Y[2],
      X[3] * Y[3]>>

\* The digits of x * y to the base 10000, lowest first and not carried over
ProductLimbs(x, y) == LimbProduct(Limbs(x), Limbs(y))

\* The digits of the difference of the numbers whose digits are P and B
LimbDifference(P, B) == [k \in 1 .. 5 |-> P[k] - B[k]]

\* The sign of the number whose digits k, ..., 1 to the base 10000 are D[k],
\* ..., D[1], after the higher digits gave acc: once acc is 100000 or more
\* in size the lower digits, each below 300000000 in size, cannot turn it
RECURSIVE SignFrom(_, _, _)
SignFrom(D, k, acc) ==
    IF k = 0 \/ Abs(acc) >= 100000 THEN acc
    ELSE SignFrom(D, k - 1, acc * 10000 + D[k])

\* p * q <= b * b for integers from 0 to 2^31 - 1, without the products
ProductAtMost(p, q, b) ==
    SignFrom(LimbDifference(ProductLimbs(p, q), ProductLimbs(b, b)), 5, 0) <= 0

\* d - 1/2 <= sqrt(a^2 + b^2) for a >= b >= 0, that is (2d - 1)^2 <= (2a)^2
\* + (2b)^2
HalfBelow(a, b, d) ==
    2 * d - 1 <= 2 * a \/ ProductAtMost(2 * d - 1 - 2 * a, 2 * d - 1 + 2 * a, 2 * b)

\* The largest d in lo .. hi with HalfBelow(a, b, d), lo being one
RECURSIVE NormSearch(_, _, _, _)
NormSearch(a, b, lo, hi) ==
    IF lo >= hi THEN lo
    ELSE IF HalfBelow(a, b, (lo + hi + 1) \div 2)
    THEN NormSearch(a, b, (lo + hi + 1) \div 2, hi)
    ELSE NormSearch(a, b, lo, (lo + hi + 1) \div 2 - 1)

\* The number whose digits are those of B less those of P, over 10000, summed
\* from the highest digit
HighDigits(B, P) ==
    (((B[5] - P[5]) * 10000 + B[4] - P[4]) * 10000 + B[3] - P[3]) * 10000
        + B[2] - P[2] + (B[1] - P[1]) \div 10000

\* (a^2 + b^2 - lo^2) \div 10000 for a <= lo <= 100000000 with lo^2 <= a^2
\* + b^2 < (lo + 30000)^2, as b * b - (lo - a) * (lo + a)
ExcessHigh(a, b, lo) == HighDigits(ProductLimbs(b, b), ProductLimbs(lo - a, lo + a))

\* (q * m + r) * 10^k \div m for r < m < 2^31 / 10, by long division
RECURSIVE Shifted(_, _, _, _)
Shifted(q, r, m, k) ==
    IF k = 0 THEN q
    ELSE Shifted(q * 10 + (r * 10) \div m, (r * 10) % m, m, k - 1)

\* (e * 10000) \div m
Quotient(e, m) == Shifted(e \div m, e % m, m, 4)

\* About sqrt(a^2 + b^2), from lo below it: lo + d for the d that solves
\* d = (a^2 + b^2 - lo^2) / (2 lo + d), in three rounds from d = 0, e being
\* (a^2 + b^2 - lo^2) \div 10000
EstimateFrom(e, lo) ==
    lo + Quotient(e, 2 * lo + Quotient(e, 2 * lo + Quotient(e, 2 * lo)))
NormEstimate(a, b, lo) == EstimateFrom(ExcessHigh(a, b, lo), lo)

\* The largest d in lo .. hi with HalfBelow(a, b, d), tried next to c first
NormNear(a, b, lo, hi, c) ==
    IF HalfBelow(a, b, c)
    THEN IF ~HalfBelow(a, b, c + 1) THEN c
         ELSE IF ~HalfBelow(a, b, c + 2) THEN c + 1
         ELSE NormSearch(a, b, c + 2, hi)
    ELSE IF HalfBelow(a, b, c - 1) THEN c - 1
         ELSE NormSearch(a, b, lo, c - 2)

\* sqrt(a^2 + b^2) to the nearest unit, for a >= b >= 0, known to lie in
\* lo .. hi: searched for, next to an estimate between 0.1 m and 10 m
NormBetween(a, b, lo, hi) ==
    IF lo >= 1000000 /\ lo <= 100000000 /\ hi - lo > 8
    THEN NormNear(a, b, lo, hi, NormEstimate(a, b, lo))
    ELSE NormSearch(a, b, lo, hi)

\* The whole thousandths of sqrt(a^2 + b^2), for a >= b >= 0 in thousandths
WholeRoot(am, bm) ==
    IF am = 0 THEN 0
    ELSE SqrtFrom(am * am + bm * bm, am + (bm * bm) \div (2 * am) + 1)

Larger(x, y) == IF x < y THEN y ELSE x
Smaller(x, y) == IF x < y THEN x ELSE y

\* sqrt(a^2 + b^2) to the nearest unit, for a >= b >= 0, r being the whole
\* thousandths of the length of the vector cut to thousandths: r is the
\* length when nothing was cut and r is the exact root, and the length lies
\* between r and r + 3 thousandths otherwise
NormFrom(a, b, r) ==
    IF /\ a % DistanceUnits = 0
       /\ b % DistanceUnits = 0
       /\ r * r = (a \div DistanceUnits) * (a \div DistanceUnits)
                      + (b \div DistanceUnits) * (b \div DistanceUnits)
    THEN r * DistanceUnits
    ELSE NormBetween(a, b, Larger(a, r * DistanceUnits),
                     Smaller(a + b, (r + 3) * DistanceUnits))

NormSorted(a, b) == NormFrom(a, b, WholeRoot(a \div DistanceUnits, b \div DistanceUnits))

\* np.linalg.norm of a 2-vector, to the nearest unit.  Either coordinate has
\* to stay below 32768 thousandths in size, so that the squares of the
\* thousandths add up to a 32-bit integer, whose root is 46340 at most.
Norm(v) == NormSorted(Larger(Abs(v[1]), Abs(v[2])), Smaller(Abs(v[1]), Abs(v[2])))

\* Thousandths of reward to a tenth
RewardUnits == 100

\* coefficient * delta for a coefficient of the reward (alpha, beta) and a
\* difference of stored distances, in thousandths of reward; the coefficients
\* are multiples of DistanceUnits
Scaled(coefficient, delta) == (coefficient \div DistanceUnits) * delta

\* The tenth nearest to x thousandths of reward, halves upwards
Tenths(x) == (2 * x + RewardUnits) \div (2 * RewardUnits)

\* How far the unit nearest to a float32 can lie from the exact value in
\* whole units, when the roundings that led to the float32 add up to m *
\* 2^-24 units at most: m / 2^24 to the nearest unit.
Float32Bound(m) == (m + 2^23) \div 2^24

\* Half of the last bit of a float32 from 2^e m to 2^(e + 1) m, in 2^-24 of a
\* unit, for e from -7 to 7: 10^7 * 2^e
Binades == {((1000 * DistanceUnits) \div 2^7) * 2^k : k \in 0 .. 14}

\* How far a float32 can lie from a value of n units that is rounded to it,
\* in 2^-24 of a unit: half of the last of its 24 bits, which is 2^(e - 24)
\* m for a value from 2^e m to 2^(e + 1) m, that is the largest of Binades
\* that is n at most; below 10^7 * 2^-7 units (7.8 mm) n itself, which is
\* more
HalfUlp(n) ==
    IF n < (1000 * DistanceUnits) \div 2^7 THEN n
    ELSE CHOOSE p \in Binades : p <= n /\ n \div 2 < p

\* HalfUlp of a value that the model holds as n units and that was computed
\* from operands whose magnitudes, with n, add up to m: the value lies
\* within the roundings of the operands from n, which may take it past a
\* power of 2
HalfUlpNear(n, m) == HalfUlp(n + 4 + m \div 2^21)

\* a * 2^s = q * 10^7 + r with 2^23 <= q < 2^24, for a of 10^7 units (1 m)
\* or more, as <<q, r, s>>: q is the 24-bit significand of a units cut off
RECURSIVE Float32Mantissa(_, _, _)
Float32Mantissa(q, r, s) ==
    IF q >= 2^23 THEN <<q, r, s>>
    ELSE Float32Mantissa(2 * q + (2 * r) \div (1000 * DistanceUnits),
                         (2 * r) % (1000 * DistanceUnits), s + 1)

\* What the float32 nearest to a number of units adds to it, to the nearest
\* unit, m being the Float32Mantissa of the number: the significand goes up
\* when the rest is more than half of its last bit, or half of it and the
\* significand is odd
Float32Excess(m) ==
    IF \/ 2 * m[2] > 1000 * DistanceUnits
       \/ 2 * m[2] = 1000 * DistanceUnits /\ m[1] % 2 = 1
    THEN (2 * (1000 * DistanceUnits - m[2]) + 2^m[3]) \div 2^(m[3] + 1)
    ELSE -((2 * m[2] + 2^m[3]) \div 2^(m[3] + 1))

\* np.float32 of a >= 10^7 units, to the nearest unit
Float32Above(a) ==
    a + Float32Excess(Float32Mantissa(a \div (1000 * DistanceUnits),
                                      a % (1000 * DistanceUnits), 0))

\* np.float32 of a coordinate given in whole units, to the nearest unit.
\* Below 1 m a float32 is nearer to the whole number of units than half a
\* unit.
Float32Of(x) ==
    IF Abs(x) < 1000 * DistanceUnits THEN x
    ELSE IF x < 0 THEN -Float32Above(-x) ELSE Float32Above(x)

\* np.array(v, dtype=np.float32) of a vector given in whole units
Float32(v) == <<Float32Of(v[1]), Float32Of(v[2])>>

\* How far, in 2^-24 of a unit, a float32 that the model holds as the unit x
\* nearest to it can lie from x, when its own roundings are right to m *
\* 2^-24 units: these, and never more than half a unit
Float32Residue(m) == IF m < 2^23 THEN m ELSE 2^23

\* The errors of a float32 array [x, y] computed from the odometry position
\* `pos` and a float32 operand that lies `held` (in 2^-24 of a unit) from
\* the unit the model holds for it, with the exact result `value`: numpy
\* 1.x subtracts in double and rounds the result (lines 111-114, 131), numpy
\* 2.x rounds the odometry coordinate first and subtracts in float32.  The
\* bound is that of one coordinate.
Float32ErrorBound(pos, value, held) ==
    Float32Bound(held + HalfUlp(Abs(pos))
                 + HalfUlpNear(Abs(value), Abs(pos) + Abs(value) + Abs(pos - value)))
ErrorsWithin(b1, b2) == {<<e1, e2>> : e1 \in -b1 .. b1, e2 \in -b2 .. b2}
Float32Errors(pos, value, held) ==
    ErrorsWithin(Float32ErrorBound(pos[1], value[1], held[1]),
                 Float32ErrorBound(pos[2], value[2], held[2]))

\* How far the float32 norm the code computes can lie from Norm of the
\* position the model holds, in units: the model's position and norm are
\* whole units (half a unit each coordinate, half a unit the norm), and the
\* float32 subtraction, squares, sum and square root are each right to the
\* 24th bit of a length of d units
Float32Slack(d) == 2 + d \div 2^22

\* x < y for float32 norms that the model holds as x and y, each right to
\* `slack` between them: values farther apart compare as the integers do,
\* closer ones as `rounding` has it (0.0099999998 against 0.01, 0.49999997
\* against 0.5, or 0.0100000007 and 0.5, with the positions, the odometry
\* offset and the promotion rules of numpy)
FloatTie(x, y, slack) == Abs(x - y) <= slack
FloatBelow(x, y, slack, rounding) == IF FloatTie(x, y, slack) THEN rounding ELSE x < y

Add(a, b) == <<a[1] + b[1], a[2] + b[2]>>
Sub(a, b) == <<a[1] - b[1], a[2] - b[2]>>

RECURSIVE MinOf(_)
MinOf(r) ==
    IF Len(r) = 1 THEN r[1]
    ELSE LET m == MinOf(Tail(r)) IN IF r[1] < m THEN r[1] ELSE m

\* self.state is None
NoneState == [id |-> 0, ranges |-> <<>>]

\* A new array is an object distinct from every array still referenced.
NewId(held, kept) == CHOOSE i \in 1 .. 3 : i # held /\ i # kept

-----------------------------------------------------------------------------
(* The callbacks *)

\* Mutant of scan_callback: the readings are copied into the array already
\* held, which stays the same object
scan_callback_in_place(s, msg, kept) ==
    IF s.state = NoneState
    THEN [s EXCEPT !.state = [id |-> NewId(s.state.id, kept), ranges |-> msg]]
    ELSE [s EXCEPT !.state.ranges = msg]

\* scan_callback: self.state becomes a new array holding msg.ranges; kept is
\* the identity of the array the waiting caller still references.
scan_callback(s, msg, kept) ==
    [s EXCEPT !.state = [id |-> NewId(s.state.id, kept), ranges |-> msg]]

\* Mutant of NormalizeYaw: math.pi is not subtracted after the remainder, the
\* yaw is wrapped onto [0, 2 pi)
NormalizeYaw_unshifted(yaw, upper) == (yaw + Pi) % (2 * Pi)

\* (adjusted_yaw + math.pi) % (2 * math.pi) - math.pi, in double arithmetic.
\* An adjusted yaw that is pi or -pi to the degree is a rounding away from
\* it: adjusted_yaw + math.pi falls just below 0 or 2 pi, and the result is
\* math.pi (`upper`), or at or above it, and the result is -math.pi.
NormalizeYaw(yaw, upper) ==
    IF (yaw + Pi) % (2 * Pi) = 0 /\ upper THEN Pi
    ELSE ((yaw + Pi) % (2 * Pi)) - Pi

\* The ways the double arithmetic of line 136 can round on the sample msg
YawRoundings(s, msg) ==
    IF s.odom_calibrated /\ (msg.yaw + s.yaw_offset + Pi) % (2 * Pi) = 0
    THEN BOOLEAN ELSE {FALSE}

\* How far the float32 start position lies from the unit held for it, in
\* 2^-24 of a unit (line 49)
StartResidueOf(s, i) == Float32Residue(HalfUlp(Abs(s.start_position[i])))
StartResidue(s) == <<StartResidueOf(s, 1), StartResidueOf(s, 2)>>

\* How far the float32 offset lies from the unit held for it, coordinate i,
\* in 2^-24 of a unit: the roundings of lines 111-114, on the start
\* position, on the sample that calibrated (offset + start) and on the
\* offset
OperandsOf(s, i) ==
    Abs(s.start_position[i]) + Abs(s.odom_position_offset[i] + s.start_position[i])
        + Abs(s.odom_position_offset[i])
OffsetResidueOf(s, i) ==
    Float32Residue(StartResidueOf(s, i)
                   + HalfUlpNear(Abs(s.odom_position_offset[i] + s.start_position[i]),
                                 OperandsOf(s, i))
                   + HalfUlpNear(Abs(s.odom_position_offset[i]), OperandsOf(s, i)))
OffsetResidue(s) == <<OffsetResidueOf(s, 1), OffsetResidueOf(s, 2)>>

\* The float32 errors that odom_callback can make on the sample msg: those
\* of the offset (lines 111-114) on the sample that calibrates, those of the
\* position (line 131) on a later one
PositionRoundings(s, msg) ==
    IF ~s.odom_calibrated
    THEN Float32Errors(msg.pos, Sub(msg.pos, s.start_position), StartResidue(s))
    ELSE Float32Errors(msg.pos, Sub(msg.pos, s.odom_position_offset), OffsetResidue(s))

\* The roundings of odom_callback on the sample msg: the errors of the
\* float32 coordinates and the way of the yaw, as <<e1, e2, upper>>
OdomRoundings(s, msg) ==
    {<<e[1], e[2], upper>> : e \in PositionRoundings(s, msg), upper \in YawRoundings(s, msg)}

\* odom_callback, first branch: the offsets of the sample that calibrates;
\* `rounding` is the error of the float32 offset
Calibrate(s, msg, rounding) ==
    [s EXCEPT !.odom_position_offset = Add(Sub(msg.pos, s.start_position), rounding),
              !.yaw_offset = desired_yaw - msg.yaw,
              !.odom_calibrated = TRUE,
              !.current_position = s.start_position,
              !.current_yaw = desired_yaw]

\* Mutant of ApplyOffset: the position offset added instead of subtracted
ApplyOffset_added(s, msg, rounding) ==
    [s EXCEPT !.current_position = Add(Add(msg.pos, s.odom_position_offset), rounding),
              !.current_yaw = NormalizeYaw(msg.yaw + s.yaw_offset, rounding[3])]

\* odom_callback, second branch: the offsets applied to a later sample;
\* `rounding` is the error of the float32 position and the way of the yaw
ApplyOffset(s, msg, rounding) ==
    [s EXCEPT !.current_position = Add(Sub(msg.pos, s.odom_position_offset), rounding),
              !.current_yaw = NormalizeYaw(msg.yaw + s.yaw_offset, rounding[3])]

\* Mutant of odom_callback: the calibrated flag is not consulted
odom_callback_recalibrating(s, msg, rounding) ==
    [s EXCEPT !.odom_position_offset = Add(Sub(msg.pos, s.start_position), rounding),
              !.yaw_offset = desired_yaw - msg.yaw,
              !.odom_calibrated = TRUE,
              !.current_position = s.start_position,
              !.current_yaw = desired_yaw]

\* odom_callback; `rounding` is one of OdomRoundings(s, msg)
odom_callback(s, msg, rounding) ==
    IF ~s.odom_calibrated THEN Calibrate(s, msg, rounding)
    ELSE ApplyOffset(s, msg, rounding)

-----------------------------------------------------------------------------
(* The methods *)

\* A TwistStamped message: twist.linear.x and twist.angular.z
Twist(linear, angular) == [linear |-> linear, angular |-> angular]

\* _take_action: the message it publishes
take_action(s, action) ==
    IF s.is_discrete
    THEN CASE action = 0 -> Twist(discrete_speed, 0)
           [] action = 1 -> Twist(0, discrete_speed)
           [] action = 2 -> Twist(0, -discrete_speed)
           [] action = 3 -> Twist(-discrete_speed, 0)
           [] OTHER -> Twist(0, 0)
    ELSE Twist(action[1], action[2])

\* _send_stop_command: the message it publishes
send_stop_command == Twist(0, 0)

\* _get_state
ZeroState == [id |-> 0, ranges |-> <<0, 0>>]
get_state(s) == IF s.state = NoneState THEN ZeroState ELSE s.state

\* Mutant of is_collision: every colliding step is counted, not only the
\* first of a run
is_collision_counting_all(s) ==
    LET collision == s.state # NoneState /\ MinOf(s.state.ranges) < collision_threshold
        s1 == IF collision THEN [s EXCEPT !.collision_count = @ + 1] ELSE s
    IN [s |-> [s1 EXCEPT !.collision = collision], result |-> collision]

\* _is_collision: the updated object and the value returned
is_collision(s) ==
    LET collision == s.state # NoneState /\ MinOf(s.state.ranges) < collision_threshold
        s1 == IF ~s.collision /\ collision
              THEN [s EXCEPT !.collision_count = @ + 1]
              ELSE s
    IN [s |-> [s1 EXCEPT !.collision = collision], result |-> collision]

\* position_change < self.stationary_threshold (line 266), for
\* position_change held as `change`
StationaryBelow(change, rounding) ==
    FloatBelow(change, stationary_threshold, Float32Slack(change), rounding.stationary)

\* np.linalg.norm(self.goal_position - self.current_position) < 0.5 (line
\* 290), for the norm held as `distance`
GoalBelow(distance, rounding) ==
    FloatBelow(distance, goal_threshold, Float32Slack(distance), rounding.goal)

\* distance_to_goal < self.best_distance_to_goal (line 248): both are float32
\* norms, each with its rounding
ImprovedSlack(s, distance_to_goal) ==
    Float32Slack(distance_to_goal) + Float32Slack(s.best_distance_to_goal)
ImprovedBelow(s, distance_to_goal, rounding) ==
    FloatBelow(distance_to_goal, s.best_distance_to_goal,
               ImprovedSlack(s, distance_to_goal), rounding.improved)

\* How far the reward the code returns can lie from the one computed on the
\* distances the model holds, in thousandths: alpha and beta are one
\* thousandth a unit, the two distances have their rounding, and the float32
\* product of numpy 2.x is right to a thousandth
RewardSlack(last_distance_to_goal, distance_to_goal) ==
    Float32Slack(last_distance_to_goal) + Float32Slack(distance_to_goal) + 1

\* By how many tenths the reward of the code can differ from Tenths(x), for x
\* thousandths computed on the distances the model holds and the code's
\* reward within `slack` thousandths of x: the tenths q that are nearest to
\* some value within slack of x, less Tenths(x)
RewardErrors(x, slack) ==
    LET reach == (slack + RewardUnits) \div RewardUnits
    IN {e \in -reach .. reach :
           2 * Abs(RewardUnits * (Tenths(x) + e) - x) <= 2 * slack + RewardUnits}

\* What rounding can make of a step of s: the outcomes of the three float32
\* comparisons, position_change < self.stationary_threshold (line 266),
\* distance_to_goal < self.best_distance_to_goal (line 248) and norm < 0.5
\* (line 290), where the values are within their rounding (FALSE where they
\* are not), and the error of the reward in tenths (alpha and beta are the
\* same coefficient)
RoundingsOf(s) ==
    LET Choice(tie) == IF tie THEN BOOLEAN ELSE {FALSE}
        distance_to_goal == Norm(Sub(s.goal_position, s.current_position))
        position_change == Norm(Sub(s.current_position, s.previous_position))
        delta_distance == s.last_distance_to_goal - distance_to_goal
    IN [stationary : Choice(FloatTie(position_change, stationary_threshold,
                                     Float32Slack(position_change))),
        improved : Choice(FloatTie(distance_to_goal, s.best_distance_to_goal,
                                   ImprovedSlack(s, distance_to_goal))),
        goal : Choice(FloatTie(distance_to_goal, goal_threshold,
                               Float32Slack(distance_to_goal))),
        reward : RewardErrors(Scaled(alpha, delta_distance),
                              RewardSlack(s.last_distance_to_goal, distance_to_goal))]

\* Mutant of StationaryCheck: the cap compared with >= instead of >
StationaryCheck_early(stationary_steps, stationary) ==
    IF stationary
    THEN IF stationary_steps + 1 >= max_stationary_steps
         THEN [stationary_steps |-> 0, penalty |-> stationary_penalty]
         ELSE [stationary_steps |-> stationary_steps + 1, penalty |-> 0]
    ELSE [stationary_steps |-> 0, penalty |-> 0]

\* _calculate_reward, the stationary check: the updated counter and the
\* penalty subtracted, `stationary` being the outcome of
\* position_change < self.stationary_threshold
StationaryCheck(stationary_steps, stationary) ==
    IF stationary
    THEN IF stationary_steps + 1 > max_stationary_steps
         THEN [stationary_steps |-> 0, penalty |-> stationary_penalty]
         ELSE [stationary_steps |-> stationary_steps + 1, penalty |-> 0]
    ELSE [stationary_steps |-> 0, penalty |-> 0]

\* Mutant of calculate_reward: the step penalty charged only on a step without
\* collision
calculate_reward_sparing_collisions(s, rounding) ==
    LET distance_to_goal == Norm(Sub(s.goal_position, s.current_position))
        delta_distance == s.last_distance_to_goal - distance_to_goal
        base == IF delta_distance > 0 THEN Tenths(Scaled(alpha, delta_distance))
                ELSE Tenths(Scaled(beta, delta_distance))
        s1 == IF ImprovedBelow(s, distance_to_goal, rounding)
              THEN [s EXCEPT !.best_distance_to_goal = distance_to_goal,
                             !.steps_since_improvement = 0,
                             !.steps_of_improvement = @ + 1]
              ELSE [s EXCEPT !.steps_since_improvement = @ + 1,
                             !.steps_of_improvement = 0]
        c == is_collision(s1)
        r2 == IF c.result THEN base - collision_penalty ELSE base - step_penalty
        position_change == Norm(Sub(s.current_position, s.previous_position))
        st == StationaryCheck(s.stationary_steps,
                              StationaryBelow(position_change, rounding))
    IN [s |-> [c.s EXCEPT !.stationary_steps = st.stationary_steps,
                          !.previous_position = s.current_position,
                          !.last_distance_to_goal = distance_to_goal],
        reward |-> r2 - st.penalty + rounding.reward]

\* _calculate_reward: the updated object and the reward returned, in
\* tenths; `rounding` is one of RoundingsOf(s)
calculate_reward(s, rounding) ==
    LET distance_to_goal == Norm(Sub(s.goal_position, s.current_position))
        delta_distance == s.last_distance_to_goal - distance_to_goal
        base == IF delta_distance > 0 THEN Tenths(Scaled(alpha, delta_distance))
                ELSE Tenths(Scaled(beta, delta_distance))
        s1 == IF ImprovedBelow(s, distance_to_goal, rounding)
              THEN [s EXCEPT !.best_distance_to_goal = distance_to_goal,
                             !.steps_since_improvement = 0,
                             !.steps_of_improvement = @ + 1]
              ELSE [s EXCEPT !.steps_since_improvement = @ + 1,
                             !.steps_of_improvement = 0]
        c == is_collision(s1)
        r2 == (IF c.result THEN base - collision_penalty ELSE base) - step_penalty
        position_change == Norm(Sub(s.current_position, s.previous_position))
        st == StationaryCheck(s.stationary_steps,
                              StationaryBelow(position_change, rounding))
    IN [s |-> [c.s EXCEPT !.stationary_steps = st.stationary_steps,
                          !.previous_position = s.current_position,
                          !.last_distance_to_goal = distance_to_goal],
        reward |-> r2 - st.penalty + rounding.reward]

\* Mutant of is_done: the collision limit tested before the goal
is_done_collisions_first(s, rounding) ==
    IF s.collision_count > collision_limit
    THEN [s |-> [s EXCEPT !.done = TRUE], done |-> TRUE, reason |-> "Too many collisions."]
    ELSE IF GoalBelow(Norm(Sub(s.goal_position, s.current_position)), rounding)
    THEN [s |-> [s EXCEPT !.done = TRUE], done |-> TRUE, reason |-> "Goal reached!"]
    ELSE IF s.steps_since_improvement > max_steps_without_improvement
    THEN [s |-> [s EXCEPT !.done = TRUE], done |-> TRUE,
          reason |-> "No improvement in a while."]
    ELSE [s |-> s, done |-> s.done, reason |-> ""]

\* Mutant of is_done: False returned when no condition holds, whatever
\* self.done is
is_done_unlatched(s, rounding) ==
    IF GoalBelow(Norm(Sub(s.goal_position, s.current_position)), rounding)
    THEN [s |-> [s EXCEPT !.done = TRUE], done |-> TRUE, reason |-> "Goal reached!"]
    ELSE IF s.steps_since_improvement > max_steps_without_improvement
    THEN [s |-> [s EXCEPT !.done = TRUE], done |-> TRUE,
          reason |-> "No improvement in a while."]
    ELSE IF s.collision_count > collision_limit
    THEN [s |-> [s EXCEPT !.done = TRUE], done |-> TRUE, reason |-> "Too many collisions."]
    ELSE [s |-> s, done |-> FALSE, reason |-> ""]

\* _is_done: the updated object, the value returned and the message logged;
\* `rounding` is one of RoundingsOf of the object the step began with
is_done(s, rounding) ==
    IF GoalBelow(Norm(Sub(s.goal_position, s.current_position)), rounding)
    THEN [s |-> [s EXCEPT !.done = TRUE], done |-> TRUE, reason |-> "Goal reached!"]
    ELSE IF s.steps_since_improvement > max_steps_without_improvement
    THEN [s |-> [s EXCEPT !.done = TRUE], done |-> TRUE,
          reason |-> "No improvement in a while."]
    ELSE IF s.collision_count > collision_limit
    THEN [s |-> [s EXCEPT !.done = TRUE], done |-> TRUE, reason |-> "Too many collisions."]
    ELSE [s |-> s, done |-> s.done, reason |-> ""]

\* Mutant of reset_begin: the collision count is left as it was
reset_begin_keeping_count(s) ==
    [s EXCEPT !.steps_since_improvement = 0,
              !.steps_of_improvement = 0,
              !.best_distance_to_goal = Norm(Sub(s.goal_position, s.start_position)),
              !.done = FALSE,
              !.collision = FALSE]

\* reset, up to the world-reset request
reset_begin(s) ==
    [s EXCEPT !.steps_since_improvement = 0,
              !.steps_of_improvement = 0,
              !.best_distance_to_goal = Norm(Sub(s.goal_position, s.start_position)),
              !.done = FALSE,
              !.collision = FALSE,
              !.collision_count = 0]

\* Mutant of calibrate_begin: the offsets are cleared but the flag of the
\* previous calibration is kept
calibrate_begin_keeping_flag(s) ==
    [s EXCEPT !.odom_position_offset = <<0, 0>>,
              !.yaw_offset = 0]

\* _calibrate_odom, before its loop
calibrate_begin(s) ==
    [s EXCEPT !.odom_calibrated = FALSE,
              !.odom_position_offset = <<0, 0>>,
              !.yaw_offset = 0]

\* reset without line 163: the distance of the previous episode's last step
\* is kept
reset_state_keeping_distance(s) ==
    [s EXCEPT !.state = NoneState,
              !.previous_position = s.start_position,
              !.stationary_steps = 0]

\* reset, between _reset_robot_position and the wait
reset_state(s) ==
    [s EXCEPT !.state = NoneState,
              !.previous_position = s.start_position,
              !.last_distance_to_goal = Norm(Sub(s.goal_position, s.current_position)),
              !.stationary_steps = 0]

\* The calibration fields of the object
Calibration(s) ==
    [odom_calibrated |-> s.odom_calibrated,
     odom_position_offset |-> s.odom_position_offset,
     yaw_offset |-> s.yaw_offset]

\* The episode fields of the object
EpisodeState(s) ==
    [last_distance_to_goal |-> s.last_distance_to_goal,
     best_distance_to_goal |-> s.best_distance_to_goal,
     steps_since_improvement |-> s.steps_since_improvement,
     stationary_steps |-> s.stationary_steps,
     collision |-> s.collision,
     collision_count |-> s.collision_count,
     done |-> s.done]

Snapshot(s) ==
    [es |-> EpisodeState(s), previous_position |-> s.previous_position,
     calibration |-> Calibration(s)]

\* What a call hands back: the tuple returned, or the error raised
Returned(call, obs, reward, terminated, reason) ==
    [call |-> call, outcome |-> "ok", obs |-> obs, reward |-> reward,
     terminated |-> terminated, reason |-> reason]
Raised(call, error) ==
    [call |-> call, outcome |-> error, obs |-> NoneState, reward |-> 0,
     terminated |-> FALSE, reason |-> ""]
Pending(call) == Raised(call, "pending")

\* The log of a call: the answers of the set_pose requests it made, the
\* (place, callback) pairs of the callbacks that ran during it, and the scans
\* that scan_callback stored while _wait_for_new_state was spinning
CallLog(requests) ==
    [requests |-> requests, pumped |-> {}, fresh |-> <<>>, stationary |-> FALSE,
     at_goal |-> FALSE]

-----------------------------------------------------------------------------
(* The state after construction *)

\* __init__, the fields from the float32 start and goal (lines 48-66)
ConstructedOn(start, goal, is_discrete) ==
    [state |-> NoneState,
     start_position |-> start,
     goal_position |-> goal,
     current_position |-> start,
     current_yaw |-> 0,
     last_distance_to_goal |-> Norm(Sub(goal, start)),
     best_distance_to_goal |-> Norm(Sub(goal, start)),
     steps_since_improvement |-> 0,
     steps_of_improvement |-> 0,
     done |-> FALSE,
     collision |-> FALSE,
     collision_count |-> 0,
     previous_position |-> start,
     stationary_steps |-> 0,
     odom_position_offset |-> <<0, 0>>,
     yaw_offset |-> 0,
     odom_calibrated |-> FALSE,
     is_discrete |-> is_discrete]

\* __init__(start, goal, is_discrete), up to _reset_robot_position: the
\* arguments are cast to float32 (lines 49-50)
Constructed(start, goal, is_discrete) ==
    ConstructedOn(Float32(start), Float32(goal), is_discrete)

\* The wait of the constructor's _calibrate_odom may deliver scans before the
\* pose sample that ends it.
InitialStates == {NoneState} \cup {[id |-> 1, ranges |-> r] : r \in ScanSamples}

InitOn(modes, starts, poses, states) ==
    \E is_discrete \in modes, start \in starts, p \in poses, st \in states :
        /\ LET s == calibrate_begin(Constructed(start, goal_position, is_discrete))
           IN \E rounding \in OdomRoundings(s, p) :
                 self = [odom_callback(s, p, rounding) EXCEPT !.state = st]
        /\ pc = "idle"
        /\ initial_state = 0
        /\ ticks = 0
        /\ cmd_vel = <<>>
        /\ ret = Returned("init", NoneState, 0, FALSE, "")
        /\ pre = Snapshot(self)
        /\ episode = <<>>
        /\ first_pose = p
        /\ last_pose = p
        /\ episode_ok = TRUE
        /\ call_log = CallLog(<<>>)
        /\ latched = FALSE
        /\ calls = 0

-----------------------------------------------------------------------------
(* reset *)

\* The answers of the set_pose request: response.data, or an exception
Responses == {"true", "false", "raise"}

\* Mutant of ResetCall: the answer of the set_pose request is not examined,
\* reset goes on to _calibrate_odom whatever it was
ResetCall_forgiving(response, max_calls) ==
    /\ pc = "idle"
    /\ calls < max_calls
    /\ calls' = calls + 1
    /\ pre' = Snapshot(self)
    /\ cmd_vel' = <<send_stop_command>>
    /\ episode' = <<>>
    /\ episode_ok' = FALSE
    /\ call_log' = CallLog(<<response>>)
    /\ latched' = FALSE
    /\ initial_state' = 0
    /\ ticks' = 0
    /\ self' = calibrate_begin(reset_begin(self))
    /\ pc' = "reset_calib"
    /\ ret' = Pending("reset")
    /\ first_pose' = NoPose
    /\ UNCHANGED last_pose

\* reset up to the loop of _calibrate_odom, or to the error that
\* _reset_robot_position raises
ResetCall(response, max_calls) ==
    /\ pc = "idle"
    /\ calls < max_calls
    /\ calls' = calls + 1
    /\ pre' = Snapshot(self)
    /\ cmd_vel' = <<send_stop_command>>
    /\ episode' = <<>>
    /\ episode_ok' = FALSE
    /\ call_log' = CallLog(<<response>>)
    /\ latched' = FALSE
    /\ initial_state' = 0
    /\ ticks' = 0
    /\ IF response = "true"
       THEN /\ self' = calibrate_begin(reset_begin(self))
            /\ pc' = "reset_calib"
            /\ ret' = Pending("reset")
            /\ first_pose' = NoPose
       ELSE /\ self' = reset_begin(self)
            /\ pc' = "idle"
            /\ ret' = Raised("reset", "WorldResetFailure")
            /\ first_pose' = first_pose
    /\ UNCHANGED last_pose

\* Mutant of CalibrateDone: self.state is not cleared and the wait is for an
\* observation other than None
CalibrateDone_any_observation ==
    /\ pc = "reset_calib"
    /\ self.odom_calibrated
    /\ self' = [reset_state(self) EXCEPT !.state = self.state]
    /\ initial_state' = 0
    /\ pc' = "reset_wait"
    /\ ticks' = 0
    /\ UNCHANGED <<cmd_vel, ret, pre, episode, first_pose, last_pose, episode_ok, call_log,
                   latched, calls>>

\* _calibrate_odom: the loop ended calibrated; reset goes on to its wait
CalibrateDone ==
    /\ pc = "reset_calib"
    /\ self.odom_calibrated
    /\ self' = reset_state(self)
    /\ initial_state' = self'.state.id
    /\ pc' = "reset_wait"
    /\ ticks' = 0
    /\ UNCHANGED <<cmd_vel, ret, pre, episode, first_pose, last_pose, episode_ok, call_log,
                   latched, calls>>

\* _calibrate_odom: the loop ended at its deadline
CalibrateTimeout ==
    /\ pc = "reset_calib"
    /\ ~self.odom_calibrated
    /\ ticks >= MaxSlices
    /\ pc' = "idle"
    /\ ticks' = 0
    /\ ret' = Raised("reset", "CalibrationTimeout")
    /\ UNCHANGED <<self, initial_state, cmd_vel, pre, episode, first_pose, last_pose,
                   episode_ok, call_log, latched, calls>>

\* reset: _wait_for_new_state returned True
ResetReturn ==
    /\ pc = "reset_wait"
    /\ self.state.id # initial_state
    /\ pc' = "idle"
    /\ ticks' = 0
    /\ initial_state' = 0
    /\ ret' = Returned("reset", get_state(self), 0, FALSE, "")
    /\ episode_ok' = TRUE
    /\ UNCHANGED <<self, cmd_vel, pre, episode, first_pose, last_pose, call_log, latched,
                   calls>>

\* Mutant of ResetTimeout: at the deadline the wait is started again instead
\* of raising
ResetTimeout_retrying ==
    /\ pc = "reset_wait"
    /\ self.state.id = initial_state
    /\ ticks >= MaxSlices
    /\ ticks' = 0
    /\ UNCHANGED <<self, pc, initial_state, cmd_vel, ret, pre, episode, first_pose,
                   last_pose, episode_ok, call_log, latched, calls>>

\* reset: _wait_for_new_state returned False
ResetTimeout ==
    /\ pc = "reset_wait"
    /\ self.state.id = initial_state
    /\ ticks >= MaxSlices
    /\ pc' = "idle"
    /\ ticks' = 0
    /\ initial_state' = 0
    /\ ret' = Raised("reset", "ObservationTimeout")
    /\ UNCHANGED <<self, cmd_vel, pre, episode, first_pose, last_pose, episode_ok, call_log,
                   latched, calls>>

-----------------------------------------------------------------------------
(* step *)

Actions(s, feed) == IF s.is_discrete THEN feed.discrete ELSE feed.continuous

\* step up to the loop of _wait_for_new_state
StepCall(action, max_calls) ==
    /\ pc = "idle"
    /\ calls < max_calls
    /\ calls' = calls + 1
    /\ pre' = Snapshot(self)
    /\ cmd_vel' = <<take_action(self, action)>>
    /\ initial_state' = self.state.id
    /\ pc' = "step_wait"
    /\ ticks' = 0
    /\ ret' = Pending("step")
    /\ call_log' = CallLog(<<>>)
    /\ UNCHANGED <<self, episode, first_pose, last_pose, episode_ok, latched>>

\* Mutant of StepFinish: termination decided before the reward update
StepFinish_stale(s, rounding) ==
    LET d == is_done(s, rounding)
        r == calculate_reward(d.s, rounding)
    IN [s |-> r.s,
        ret |-> Returned("step", get_state(r.s), r.reward, d.done, d.reason)]

\* The rest of step once _wait_for_new_state returned True; `rounding` is one
\* of RoundingsOf(s)
StepFinish(s, rounding) ==
    LET r == calculate_reward(s, rounding)
        d == is_done(r.s, rounding)
    IN [s |-> d.s,
        ret |-> Returned("step", get_state(d.s), r.reward, d.done, d.reason)]

StepReturn ==
    /\ pc = "step_wait"
    /\ self.state.id # initial_state
    /\ \E rounding \in RoundingsOf(self) :
          /\ LET finish == StepFinish(self, rounding)
             IN /\ self' = finish.s
                /\ ret' = finish.ret
                /\ latched' = (latched \/ finish.ret.terminated)
          /\ call_log' =
                [call_log EXCEPT
                   !.stationary =
                      StationaryBelow(
                         Norm(Sub(self.current_position, self.previous_position)),
                         rounding),
                   !.at_goal =
                      GoalBelow(Norm(Sub(self.goal_position, self.current_position)),
                                rounding)]
    /\ episode' = Append(episode, MinOf(self.state.ranges) < collision_threshold)
    /\ pc' = "idle"
    /\ ticks' = 0
    /\ initial_state' = 0
    /\ UNCHANGED <<cmd_vel, pre, first_pose, last_pose, episode_ok, calls>>

\* Mutant of StepTimeout: the transition is scored before the error is raised
StepTimeout_scored ==
    /\ pc = "step_wait"
    /\ self.state.id = initial_state
    /\ ticks >= MaxSlices
    /\ pc' = "idle"
    /\ ticks' = 0
    /\ initial_state' = 0
    /\ \E rounding \in RoundingsOf(self) : self' = calculate_reward(self, rounding).s
    /\ ret' = Raised("step", "ObservationTimeout")
    /\ UNCHANGED <<cmd_vel, pre, episode, first_pose, last_pose, episode_ok, call_log,
                   latched, calls>>

\* Mutant of StepTimeout: a stop command published before the error is raised
StepTimeout_stopping ==
    /\ pc = "step_wait"
    /\ self.state.id = initial_state
    /\ ticks >= MaxSlices
    /\ pc' = "idle"
    /\ ticks' = 0
    /\ initial_state' = 0
    /\ cmd_vel' = Append(cmd_vel, send_stop_command)
    /\ ret' = Raised("step", "ObservationTimeout")
    /\ UNCHANGED <<self, pre, episode, first_pose, last_pose, episode_ok, call_log,
                   latched, calls>>

\* step: _wait_for_new_state returned False
StepTimeout ==
    /\ pc = "step_wait"
    /\ self.state.id = initial_state
    /\ ticks >= MaxSlices
    /\ pc' = "idle"
    /\ ticks' = 0
    /\ initial_state' = 0
    /\ ret' = Raised("step", "ObservationTimeout")
    /\ UNCHANGED <<self, cmd_vel, pre, episode, first_pose, last_pose, episode_ok, call_log,
                   latched, calls>>

-----------------------------------------------------------------------------
(* close *)

Close(max_calls) ==
    /\ pc = "idle"
    /\ calls < max_calls
    /\ calls' = calls + 1
    /\ pre' = Snapshot(self)
    /\ cmd_vel' = <<send_stop_command>>
    /\ pc' = "closed"
    /\ ret' = Returned("close", NoneState, 0, FALSE, "")
    /\ call_log' = CallLog(<<>>)
    /\ UNCHANGED <<self, initial_state, ticks, episode, first_pose, last_pose, episode_ok,
                   latched>>

-----------------------------------------------------------------------------
(* rclpy.spin_once inside the two wait loops: at most one callback runs *)

\* Mutant of Spinning: the node is spun between calls as well, as a background
\* executor would do
Spinning_background ==
    CASE pc = "reset_calib" -> ~self.odom_calibrated /\ ticks < MaxSlices
      [] pc \in {"reset_wait", "step_wait"} ->
            self.state.id = initial_state /\ ticks < MaxSlices
      [] pc = "idle" -> ticks < MaxSlices
      [] OTHER -> FALSE

\* The condition of the loop the caller is in
Spinning ==
    CASE pc = "reset_calib" -> ~self.odom_calibrated /\ ticks < MaxSlices
      [] pc \in {"reset_wait", "step_wait"} ->
            self.state.id = initial_state /\ ticks < MaxSlices
      [] OTHER -> FALSE

\* the slice passes with no message
SpinNothing ==
    /\ Spinning
    /\ ticks' = ticks + 1
    /\ UNCHANGED <<self, pc, initial_state, cmd_vel, ret, pre, episode, first_pose,
                   last_pose, episode_ok, call_log, latched, calls>>

\* an Odometry message is taken
SpinOdom(msg) ==
    /\ Spinning
    /\ ticks' = ticks + 1
    /\ \E rounding \in OdomRoundings(self, msg) :
          self' = odom_callback(self, msg, rounding)
    /\ last_pose' = msg
    /\ first_pose' = IF first_pose = NoPose THEN msg ELSE first_pose
    /\ call_log' = [call_log EXCEPT !.pumped = @ \cup {<<pc, "odom">>}]
    /\ UNCHANGED <<pc, initial_state, cmd_vel, ret, pre, episode, episode_ok, latched, calls>>

\* a LaserScan message is taken
SpinScan(msg) ==
    /\ Spinning
    /\ ticks' = ticks + 1
    /\ self' = scan_callback(self, msg, initial_state)
    /\ call_log' =
          [call_log EXCEPT
              !.pumped = @ \cup {<<pc, "scan">>},
              !.fresh = IF pc \in {"reset_wait", "step_wait"}
                        THEN Append(@, [id |-> self'.state.id, ranges |-> msg,
                                        identical |-> msg = self.state.ranges])
                        ELSE @]
    /\ UNCHANGED <<pc, initial_state, cmd_vel, ret, pre, episode, first_pose, last_pose,
                   episode_ok, latched, calls>>

-----------------------------------------------------------------------------

\* What the caller and the two topics supply in a behaviour: the pose samples,
\* the scans, the actions of either mode, and how many calls are made.
Feed(poses, scans, discrete, continuous, max_calls) ==
    [poses |-> poses, scans |-> scans, discrete |-> discrete,
     continuous |-> continuous, max_calls |-> max_calls]

NextOn(feed) ==
    \/ \E response \in Responses : ResetCall(response, feed.max_calls)
    \/ CalibrateDone
    \/ CalibrateTimeout
    \/ ResetReturn
    \/ ResetTimeout
    \/ \E action \in Actions(self, feed) : StepCall(action, feed.max_calls)
    \/ StepReturn
    \/ StepTimeout
    \/ Close(feed.max_calls)
    \/ SpinNothing
    \/ \E msg \in feed.poses : SpinOdom(msg)
    \/ \E msg \in feed.scans : SpinScan(msg)

\* Any caller, any samples, from construction; the scans are one that is clear
\* and one that collides
Scans == {<<700, 900>>, <<700, 300>>}
Init ==
    InitOn(BOOLEAN, {start_position}, {RawPose(0, 0), RawPose(1, -90)},
           {NoneState, [id |-> 1, ranges |-> <<700, 300>>]})
Next == NextOn(Feed(RawPoses, Scans, DiscreteActions, ContinuousActions, MaxCalls))
Spec == Init /\ [][Next]_vars

\* A robot that stands still at its start while the scans vary
StillPoses == {RawPose(0, 0)}
InitStill == InitOn({TRUE}, {start_position}, StillPoses, {NoneState})
NextStill == NextOn(Feed(StillPoses, ScanSamples, {0}, {}, MaxStillCalls))
SpecStill == InitStill /\ [][NextStill]_vars

\* An episode that is running, many steps after its reset: the state between
\* two step calls, with the counters next to their limits.  The robot has
\* moved along the line towards the goal, by less than the stationary
\* threshold (k = 1), by exactly the threshold (k = 2, where float32 rounding
\* decides the stationary comparison), to the edge of the goal region (k =
\* 100, at exactly 0.5 from the goal, where rounding decides the goal
\* comparison) or into the goal region (k = 105).
MidPoses ==
    {RawPose(0, 0), RawPose(1, 0), RawPose(2, 0), RawPose(100, 0), RawPose(105, 0)}
MidDistances == {Norm(Sub(goal_position, Sub(p.pos, RawPose(0, 0).pos))) : p \in MidPoses}
MidStreaks == {0, max_steps_without_improvement - 1, max_steps_without_improvement}
MidStationary == {0, max_stationary_steps - 1, max_stationary_steps}
MidCollisions == {0, collision_limit}

\* The object after construction on the sample RawPose(0, 0) and a later
\* sample p
MidObjects(p) ==
    LET s == calibrate_begin(Constructed(start_position, goal_position, TRUE))
    IN UNION {{odom_callback(s1, p, r1) : r1 \in OdomRoundings(s1, p)} :
                 s1 \in {odom_callback(s, RawPose(0, 0), r0) :
                             r0 \in OdomRoundings(s, RawPose(0, 0))}}

\* The last step of the episode so far ended at p, outside the goal region.
\* The best distance is one the robot has been at, not beyond the start's; a
\* streak of 0 means that the last step improved on it, which takes a
\* position nearer to the goal than the start.
InitMid ==
    \E p \in MidPoses, best \in MidDistances, streak \in MidStreaks,
       still \in MidStationary, count \in MidCollisions,
       ranges \in {<<700, 900>>, <<700, 300>>} :
      \E s0 \in MidObjects(p) :
        LET distance == Norm(Sub(goal_position, s0.current_position))
            collision == MinOf(ranges) < collision_threshold
        IN /\ distance >= goal_threshold
           /\ best >= goal_threshold
           /\ best <= distance
           /\ streak = 0 => (best = distance /\ best < Norm(Sub(goal_position, start_position)))
           /\ collision => count >= 1
           /\ self = [s0 EXCEPT !.state = [id |-> 1, ranges |-> ranges],
                                !.previous_position = s0.current_position,
                                !.last_distance_to_goal = distance,
                                !.best_distance_to_goal = best,
                                !.steps_since_improvement = streak,
                                !.steps_of_improvement = IF streak = 0 THEN 1 ELSE 0,
                                !.stationary_steps = still,
                                !.collision = collision,
                                !.collision_count = count]
           /\ pc = "idle"
           /\ initial_state = 0
           /\ ticks = 0
           /\ cmd_vel = <<>>
           /\ ret = Returned("running", NoneState, 0, FALSE, "")
           /\ pre = Snapshot(self)
           /\ episode = <<>>
           /\ first_pose = RawPose(0, 0)
           /\ last_pose = p
           /\ episode_ok = TRUE
           /\ call_log = CallLog(<<>>)
           /\ latched = FALSE
           /\ calls = 0
NextMid == NextOn(Feed(MidPoses, ScanSamples, {0}, {}, MaxMidCalls))
SpecMid == InitMid /\ [][NextMid]_vars

\* The calling thread keeps running: while a call is inside one of its loops,
\* the clock advances and spin_once returns, so the loop goes round or ends,
\* and the code after the loop runs.  Nothing obliges the caller to make a
\* call, nor a message to arrive.
NextLive == NextOn(Feed(StillPoses, ScanSamples, {0}, {}, MaxLiveCalls))

\* A turn of a loop, or the end of one other than the return of step
LoopGoesOn ==
    \/ SpinNothing
    \/ \E msg \in StillPoses : SpinOdom(msg)
    \/ \E msg \in ScanSamples : SpinScan(msg)
    \/ CalibrateDone
    \/ CalibrateTimeout
    \/ ResetReturn
    \/ ResetTimeout
    \/ StepTimeout

\* StepReturn as pc shows it: step leaves its wait with a new observation.
\* It is enabled exactly when StepReturn is, and the steps of NextLive that
\* satisfy it are those of StepReturn.
StepLeavesWait ==
    /\ pc = "step_wait"
    /\ self.state.id # initial_state
    /\ pc' = "idle"

SpecLive ==
    InitStill /\ [][NextLive]_vars /\ WF_vars(LoopGoesOn) /\ WF_pc(StepLeavesWait)

\* Calibration on samples and start positions whose float32 offsets and
\* positions carry a rounding error in x: a start position off the origin
\* that is a float32 (1.5, 0), one that is not (1.0025, 0, held as
\* 1.0025001), and a sample 0.6 m from the raw origin
AnchorStarts == {start_position, <<15000000, 0>>, <<10025000, 0>>}
AnchorPoses == {RawPose(0, 0), [pos |-> <<6000000, -200000>>, yaw |-> 135]}
InitAnchor == InitOn({TRUE}, AnchorStarts, AnchorPoses, {NoneState})
NextAnchor == NextOn(Feed(AnchorPoses, {<<700, 900>>}, {0}, {}, MaxAnchorCalls))
SpecAnchor == InitAnchor /\ [][NextAnchor]_vars

-----------------------------------------------------------------------------
(* Properties *)

StepReturned == pc = "idle" /\ ret.call = "step" /\ ret.outcome = "ok"
StepTimedOut == pc = "idle" /\ ret.call = "step" /\ ret.outcome = "ObservationTimeout"
ResetTimedOut == pc = "idle" /\ ret.call = "reset" /\ ret.outcome = "ObservationTimeout"

\* C1: a step call that times out waiting for a fresh observation raises an
\* error and leaves every field of EpisodeState as it was before the call,
\* whatever pose samples were delivered during the wait.
C1_StepTimeoutKeepsEpisodeState ==
    StepTimedOut => EpisodeState(self) = pre.es

\* C1, witness: the first call is a step that timed out after a pose sample
\* moved the robot away from the start.
C1_Witness ==
    /\ StepTimedOut
    /\ calls = 1
    /\ self.current_position # start_position

\* The EpisodeState of a fresh episode
FreshEpisodeState ==
    [last_distance_to_goal |-> Norm(Sub(goal_position, start_position)),
     best_distance_to_goal |-> Norm(Sub(goal_position, start_position)),
     steps_since_improvement |-> 0,
     stationary_steps |-> 0,
     collision |-> FALSE,
     collision_count |-> 0,
     done |-> FALSE]

\* C2 as stated: a reset call during which no scan arrives raises
\* ObservationTimeout and EpisodeState is unchanged from before the call.
C2_ResetTimeoutKeepsEpisodeState ==
    ResetTimedOut => EpisodeState(self) = pre.es

\* C2, amended: a reset call that raises ObservationTimeout leaves the
\* EpisodeState of a fresh episode (counters zero, flags false, both distances
\* the start-to-goal distance), whatever the previous episode left behind.
C2_ResetTimeoutLeavesFreshEpisodeState ==
    ResetTimedOut => EpisodeState(self) = FreshEpisodeState

\* C2, witness: a reset timed out on its observation and the episode fields
\* differ from those the previous episode had left.
C2_Witness ==
    /\ ResetTimedOut
    /\ pre.es.collision_count > 0
    /\ EpisodeState(self) # pre.es

\* The rising edges of a sequence of colliding flags, the state before the
\* first step counting as not colliding
RisingEdges(seq) ==
    Cardinality({i \in 1 .. Len(seq) : seq[i] /\ (i = 1 \/ ~seq[i - 1])})

\* C3: within one episode the collision count equals the number of rising
\* edges of the successful steps' observations (minimum below the collision
\* threshold after a step whose minimum was not); it never grows on a step
\* that continues a collision nor on a clear step.
C3_CollisionCountIsRisingEdges ==
    self.collision_count = RisingEdges(episode)

\* C3, witness: three colliding steps, a clear one, a colliding one: count 2.
C3_Witness ==
    /\ episode = <<TRUE, TRUE, TRUE, FALSE, TRUE>>
    /\ self.collision_count = 2

DistanceToGoal == Norm(Sub(goal_position, self.current_position))
\* What the goal comparison of the step that has returned said
AtGoal == call_log.at_goal
\* It said below for every position nearer to the goal than the threshold by
\* more than the rounding of the float32 norm, and not below for every
\* position farther from it by more than that
AtGoalFollowsPosition ==
    /\ DistanceToGoal < goal_threshold - Float32Slack(DistanceToGoal) => AtGoal
    /\ DistanceToGoal > goal_threshold + Float32Slack(DistanceToGoal) => ~AtGoal

\* C4: termination reasons are evaluated in the order goal reached,
\* stagnation, too many collisions: a step that ends within 0.5 of the goal
\* reports the goal whatever the streak and the collision count are, and
\* stagnation is reported before too many collisions.
C4_TerminationPriority ==
    StepReturned =>
        /\ AtGoalFollowsPosition
        /\ AtGoal => ret.reason = "Goal reached!"
        /\ (/\ ~AtGoal
            /\ self.steps_since_improvement > max_steps_without_improvement)
              => ret.reason = "No improvement in a while."
        /\ (/\ ~AtGoal
            /\ self.steps_since_improvement <= max_steps_without_improvement
            /\ self.collision_count > collision_limit)
              => ret.reason = "Too many collisions."

\* C4, witness: a step ended inside the goal region with more than 10
\* collisions counted and reported the goal.
C4_Witness ==
    /\ StepReturned
    /\ AtGoal
    /\ self.collision_count > collision_limit
    /\ ret.reason = "Goal reached!"

\* C5: for an episode running before the step, a successful step returns
\* terminated = true exactly when, with the counters as this step updated
\* them, the distance is below 0.5, or the streak exceeds its limit, or the
\* collision count exceeds 10; otherwise the episode stays running.
C5_TerminatedIffCondition ==
    (StepReturned /\ ~pre.es.done) =>
        /\ AtGoalFollowsPosition
        /\ ret.terminated <=>
              \/ AtGoal
              \/ self.steps_since_improvement > max_steps_without_improvement
              \/ self.collision_count > collision_limit
        /\ self.done = ret.terminated

\* C5, at exactly 0.5 from the goal with float32 rounding below it: the step
\* terminated the running episode and reported the goal.
C5_WitnessThreshold ==
    /\ StepReturned
    /\ ~pre.es.done
    /\ DistanceToGoal = goal_threshold
    /\ AtGoal
    /\ ret.terminated
    /\ ret.reason = "Goal reached!"

\* C5, at exactly 0.5 from the goal with rounding not below it: the episode
\* stayed running.
C5_WitnessThresholdRunning ==
    /\ StepReturned
    /\ ~pre.es.done
    /\ DistanceToGoal = goal_threshold
    /\ ~AtGoal
    /\ ~ret.terminated
    /\ ~self.done

\* C5, witness: the step that carried the 11th rising edge terminated a
\* running episode that was outside the goal region and within its streak.
C5_Witness ==
    /\ StepReturned
    /\ ~pre.es.done
    /\ pre.es.collision_count = collision_limit
    /\ self.collision_count = collision_limit + 1
    /\ ~AtGoal
    /\ self.steps_since_improvement <= max_steps_without_improvement
    /\ ret.terminated

\* C6: after construction or a reset returned successfully, the calibration
\* flag stays true and the offsets stay those of the first pose sample
\* delivered after that calibration began, through every later pose sample
\* and step, until the next reset call.
C6_OffsetFixedForEpisode ==
    episode_ok =>
        /\ self.odom_calibrated
        /\ self.odom_position_offset = Sub(first_pose.pos, start_position)
        /\ self.yaw_offset = desired_yaw - first_pose.yaw

\* C6, witness: a reset calibrated on one sample, and a later step returned
\* after another sample was delivered.
C6_Witness ==
    /\ episode_ok
    /\ StepReturned
    /\ first_pose = RawPose(2, 180)
    /\ last_pose # first_pose

\* The last pose sample delivered is the one that calibrated the offsets the
\* object holds
AnchoredOnLast ==
    /\ self.odom_calibrated
    /\ first_pose # NoPose
    /\ last_pose = first_pose

\* How far coordinate i of the position can lie from the start position when
\* the calibrating sample is applied again: the rounding of the float32
\* offset (lines 111-114) and that of the float32 position (line 131)
AnchorSlack(i) ==
    Float32ErrorBound(last_pose.pos[i], last_pose.pos[i] - self.start_position[i],
                      StartResidueOf(self, i))
    + Float32ErrorBound(last_pose.pos[i], last_pose.pos[i] - self.odom_position_offset[i],
                        OffsetResidueOf(self, i))

C7_WitnessExact ==
    /\ StepReturned
    /\ AnchoredOnLast
    /\ pre.previous_position # self.start_position
    /\ self.current_position = self.start_position
    /\ self.current_yaw = desired_yaw

\* C8 as stated: the episode-local yaw lies in (-pi, pi].
C8_YawInHalfOpenUpper ==
    self.odom_calibrated => (self.current_yaw > -Pi /\ self.current_yaw <= Pi)

\* C8, amended: the episode-local yaw is congruent to raw yaw + offset and
\* lies in [-pi, pi], both ends included: -pi and pi are both produced, and
\* only from a raw yaw + offset congruent to pi.
C8_YawInClosedRange ==
    self.odom_calibrated =>
        /\ self.current_yaw >= -Pi
        /\ self.current_yaw <= Pi
        /\ (self.current_yaw - (last_pose.yaw + self.yaw_offset)) % (2 * Pi) = 0

\* C8, witness: raw yaw + offset is pi and the episode-local yaw is -pi.
C8_Witness ==
    /\ self.odom_calibrated
    /\ last_pose.yaw + self.yaw_offset = Pi
    /\ self.current_yaw = -Pi

\* C8, the other end: raw yaw + offset is -pi and the episode-local yaw is pi.
C8_WitnessUpper ==
    /\ self.odom_calibrated
    /\ last_pose # first_pose
    /\ last_pose.yaw + self.yaw_offset = -Pi
    /\ self.current_yaw = Pi

\* C9 as stated: in continuous mode every command that step publishes has its
\* linear velocity in [-3.0, 3.0] and its angular velocity in [-1.5, 1.5].
C9_ContinuousCommandWithinBounds ==
    (ret.call = "step" /\ ~self.is_discrete) =>
        \A i \in 1 .. Len(cmd_vel) :
            /\ cmd_vel[i].linear >= -linear_bound
            /\ cmd_vel[i].linear <= linear_bound
            /\ cmd_vel[i].angular >= -angular_bound
            /\ cmd_vel[i].angular <= angular_bound

\* How far the reward of the step that has returned can lie from the one
\* computed on the distances the model holds, in thousandths
RewardRounding == RewardSlack(pre.es.last_distance_to_goal, DistanceToGoal)

\* The reward returned is x thousandths, as far as its float32 distances
\* tell: it is the tenth nearest to a value within RewardRounding of x
RewardIs(x) == 2 * Abs(RewardUnits * ret.reward - x) <= 2 * RewardRounding + RewardUnits

\* The stationary penalty a returned step subtracted: what the reward lacks
\* of the distance term less the collision and step penalties, which is the
\* penalty or nothing
StationaryPenaltyPaid ==
    LET delta == pre.es.last_distance_to_goal - DistanceToGoal
        base == IF delta > 0 THEN Scaled(alpha, delta) ELSE Scaled(beta, delta)
        collided == IF self.collision THEN collision_penalty ELSE 0
        rest == base - RewardUnits * (collided + step_penalty)
    IN IF RewardIs(rest - RewardUnits * stationary_penalty) THEN stationary_penalty
       ELSE IF RewardIs(rest) THEN 0
       ELSE -1

\* The move of the step that has returned, its length, and what its
\* stationary comparison said
Moved == Sub(self.current_position, pre.previous_position)
MoveLength == Norm(Moved)
StoodStill == call_log.stationary

\* C10: a step on which the robot stood still for the (max_stationary_steps
\* + 1)-th time in a row pays the stationary penalty once and leaves the
\* counter at 0; the earlier stationary steps pay none and count up; a step
\* with movement at or above the threshold pays none and zeroes the counter.
\* The movement is the one the code compares, position_change: a move shorter
\* than the threshold by more than the rounding of the float32 norm always
\* counts as standing still, and one longer by more than that never.
C10_StationaryPenalty ==
    StepReturned =>
        /\ MoveLength < stationary_threshold - Float32Slack(MoveLength) => StoodStill
        /\ MoveLength > stationary_threshold + Float32Slack(MoveLength) => ~StoodStill
        /\ (StoodStill /\ pre.es.stationary_steps = max_stationary_steps)
              => (StationaryPenaltyPaid = stationary_penalty /\ self.stationary_steps = 0)
        /\ (StoodStill /\ pre.es.stationary_steps < max_stationary_steps)
              => /\ StationaryPenaltyPaid = 0
                 /\ self.stationary_steps = pre.es.stationary_steps + 1
        /\ ~StoodStill => (StationaryPenaltyPaid = 0 /\ self.stationary_steps = 0)

\* C10, witness: the counter stood at its cap, the robot moved by less than
\* the threshold, and the step paid the penalty and zeroed the counter.
C10_Witness ==
    /\ StepReturned
    /\ pre.es.stationary_steps = max_stationary_steps
    /\ StoodStill
    /\ self.current_position # pre.previous_position
    /\ StationaryPenaltyPaid = stationary_penalty
    /\ self.stationary_steps = 0

\* C10, the move of exactly the threshold that float32 rounding put below it:
\* it counted as the 101st stationary step and paid the penalty.
C10_WitnessThreshold ==
    /\ StepReturned
    /\ pre.es.stationary_steps = max_stationary_steps
    /\ MoveLength = stationary_threshold
    /\ StoodStill
    /\ StationaryPenaltyPaid = stationary_penalty
    /\ self.stationary_steps = 0

\* C10, the same move where rounding put it at the threshold: no penalty, and
\* the counter back at 0.
C10_WitnessThresholdMoved ==
    /\ StepReturned
    /\ pre.es.stationary_steps = max_stationary_steps
    /\ MoveLength = stationary_threshold
    /\ ~StoodStill
    /\ StationaryPenaltyPaid = 0
    /\ self.stationary_steps = 0

ResetReturned == pc = "idle" /\ ret.call = "reset" /\ ret.outcome = "ok"

\* C11: whenever reset returns successfully, whatever state the previous
\* episode ended in, the episode is running (done is false), the no-improvement
\* streak, the stationary counter and the collision count are 0, the collision
\* flag is false, and the best and the last distance both equal the distance
\* from start to goal.
C11_ResetLeavesFreshEpisode ==
    ResetReturned => EpisodeState(self) = FreshEpisodeState

\* C11, witness: reset returned after an episode that had terminated with
\* more collisions than the limit, away from the start and with a streak.
C11_Witness ==
    /\ ResetReturned
    /\ EpisodeState(self) = FreshEpisodeState
    /\ pre.es.done
    /\ pre.es.collision_count > collision_limit
    /\ pre.es.steps_since_improvement > 0
    /\ pre.es.last_distance_to_goal # FreshEpisodeState.last_distance_to_goal

\* The terms of the reward of the step that has returned, written from the
\* values at the call and the pose and observation the step ended with
ProgressTerm ==
    LET delta == pre.es.last_distance_to_goal - DistanceToGoal
    IN IF delta > 0 THEN Scaled(alpha, delta) ELSE Scaled(beta, delta)

Colliding == MinOf(ret.obs.ranges) < collision_threshold

CapExceeded == StoodStill /\ pre.es.stationary_steps + 1 > max_stationary_steps

\* The reward that C12 composes, in thousandths
ComposedReward ==
    ProgressTerm - RewardUnits * ((IF Colliding THEN collision_penalty ELSE 0)
                                  + step_penalty
                                  + (IF CapExceeded THEN stationary_penalty ELSE 0))

\* C12: the reward of a successful step is alpha * delta when the distance to
\* the goal shrank by delta > 0 and beta * delta otherwise, minus the
\* collision penalty iff the observation is colliding, minus the step penalty
\* always, minus the stationary penalty iff the stationary counter exceeded
\* its cap on this step, delta being the stored last distance less the
\* current distance, to the tenth and the rounding of these two float32
\* distances; after the step the stored last distance is the current
\* distance and the stored previous position is the current position.
C12_RewardComposition ==
    StepReturned =>
        /\ RewardIs(ComposedReward)
        /\ self.last_distance_to_goal = DistanceToGoal
        /\ self.previous_position = self.current_position

\* C12, witness: a step that moved away from the goal by less than the
\* stationary threshold, with a colliding observation and the counter at its
\* cap, paid all three penalties on top of the negative progress term.
C12_Witness ==
    /\ StepReturned
    /\ pre.es.last_distance_to_goal < DistanceToGoal
    /\ Colliding
    /\ CapExceeded
    /\ ComposedReward = ProgressTerm
           - RewardUnits * (collision_penalty + step_penalty + stationary_penalty)
    /\ RewardUnits * ret.reward = ComposedReward
    /\ self.previous_position # pre.previous_position

\* C12, a second case: a step towards the goal without collision and with
\* movement earns alpha * delta minus the step penalty alone.
C12_WitnessProgress ==
    /\ StepReturned
    /\ pre.es.last_distance_to_goal > DistanceToGoal
    /\ ~Colliding
    /\ ~StoodStill
    /\ ComposedReward = Scaled(alpha, pre.es.last_distance_to_goal - DistanceToGoal)
                        - RewardUnits * step_penalty
    /\ RewardUnits * ret.reward = ComposedReward

\* The commands a step call can publish in the mode of the object
StepCommands ==
    {take_action(self, a) :
        a \in IF self.is_discrete THEN DiscreteActions ELSE ContinuousActions}

\* C13: a step call publishes one velocity command, and it has published it
\* before its first spin; a reset call and a close call publish one stop
\* command each; a step that fails with the timeout has published its command
\* and no stop command after it.  cmd_vel holds the messages of one call, so
\* this bounds every call of every sequence.
C13_OneCommandPerCall ==
    /\ ret.call = "step" =>
          /\ Len(cmd_vel) = 1
          /\ cmd_vel[1] \in StepCommands
          /\ self.is_discrete => cmd_vel[1] # send_stop_command
    /\ ret.call \in {"reset", "close"} => cmd_vel = <<send_stop_command>>

\* C13, witness: a step timed out after callbacks had run during its wait, and
\* the forward command it published is the only message of the call.
C13_Witness ==
    /\ StepTimedOut
    /\ call_log.pumped # {}
    /\ cmd_vel = <<Twist(discrete_speed, 0)>>

\* C13, a second case: the command is there before the first spin of the wait.
C13_WitnessBeforePump ==
    /\ pc = "step_wait"
    /\ ticks = 0
    /\ call_log.pumped = {}
    /\ cmd_vel = <<Twist(0, -discrete_speed)>>

\* C14: when the set_pose request answers false or raises, reset raises at
\* once: the request was made once and not again, and the call entered
\* neither the calibration loop nor the wait for an observation, so that no
\* callback ran, no spin was made and the calibration was not touched during
\* the call.
C14_WorldResetFailureIsImmediate ==
    /\ ret.call = "reset" => Len(call_log.requests) = 1
    /\ (ret.call = "reset" /\ call_log.requests[1] # "true") =>
          /\ pc = "idle"
          /\ ret.outcome = "WorldResetFailure"
          /\ call_log.pumped = {}
          /\ ticks = 0
          /\ Calibration(self) = pre.calibration

\* C14, witness: the request raised during a reset made as the second call,
\* with an observation held; the reset raised with no callback delivered.
C14_Witness ==
    /\ ret.call = "reset"
    /\ call_log.requests = <<"raise">>
    /\ ret.outcome = "WorldResetFailure"
    /\ call_log.pumped = {}
    /\ calls = 2
    /\ self.state # NoneState

\* C14, a second case: the request answered false.
C14_WitnessFalse ==
    /\ ret.call = "reset"
    /\ call_log.requests = <<"false">>
    /\ ret.outcome = "WorldResetFailure"
    /\ call_log.pumped = {}

\* The places of a call where a callback ran
PumpedAt == {e[1] : e \in call_log.pumped}

\* C15 as stated: callbacks are delivered only while the call is inside
\* _wait_for_new_state, the wait for a fresh observation.
C15_PumpedOnlyInBridge ==
    PumpedAt \subseteq {"reset_wait", "step_wait"}

\* C15, amended: the node is spun in two loops, that of _calibrate_odom and
\* that of _wait_for_new_state.  The callbacks of a step run inside its
\* _wait_for_new_state; those of a reset run inside its _calibrate_odom loop
\* and, once a pose sample has ended that loop, inside its
\* _wait_for_new_state; none runs in close or between calls.
C15_PumpedOnlyInTheTwoLoops ==
    /\ ret.call = "step" => PumpedAt \subseteq {"step_wait"}
    /\ ret.call = "reset" =>
          /\ PumpedAt \subseteq {"reset_calib", "reset_wait"}
          /\ "reset_wait" \in PumpedAt => <<"reset_calib", "odom">> \in call_log.pumped
    /\ ret.call \notin {"step", "reset"} => PumpedAt = {}
    /\ pc \in {"idle", "closed"} => ticks = 0

\* C15, witness: a reset returned after both kinds of callback had run in its
\* calibration loop and in its wait for the observation.
C15_Witness ==
    /\ ResetReturned
    /\ call_log.pumped = {"reset_calib", "reset_wait"} \X {"odom", "scan"}

\* The scans stored while the call was inside _wait_for_new_state
Fresh == call_log.fresh

\* C16: _wait_for_new_state detects a new array, not a change of value: once a
\* scan has been delivered during the wait, the loop condition is false, the
\* call returns successfully and the observation it returns is that scan, also
\* when its readings equal those held when the wait began; the wait times out
\* only if no scan was delivered during it.
C16_WaitDetectsNewInstance ==
    /\ (pc \in {"reset_wait", "step_wait"} /\ Fresh # <<>>) =>
          (self.state.id # initial_state /\ ~Spinning)
    /\ (pc = "idle" /\ ret.call \in {"reset", "step"} /\ Fresh # <<>>) =>
          /\ ret.outcome = "ok"
          /\ Len(Fresh) = 1
          /\ ret.obs = [id |-> Fresh[1].id, ranges |-> Fresh[1].ranges]
    /\ ret.outcome = "ObservationTimeout" => Fresh = <<>>
    /\ (pc = "idle" /\ ret.call \in {"reset", "step"} /\ ret.outcome = "ok") => Fresh # <<>>

\* C16, witness: a step returned the scan delivered during its wait, whose
\* readings equal those of the observation held at the call.
C16_Witness ==
    /\ StepReturned
    /\ Len(Fresh) = 1
    /\ Fresh[1].identical
    /\ ret.obs.ranges = Fresh[1].ranges

\* C16, a second case: a step timed out after pose samples only.
C16_WitnessTimeout ==
    /\ StepTimedOut
    /\ call_log.pumped = {<<"step_wait", "odom">>}
    /\ Fresh = <<>>

\* C17: termination is a latch.  latched records that a step has returned
\* terminated = true since the last reset call: self.done is set exactly
\* then, and every step that returns while self.done was set at its call
\* returns terminated = true, whatever the pose, the observation and the
\* counters are by then; only a reset call clears it.
C17_TerminationLatch ==
    /\ latched <=> self.done
    /\ (StepReturned /\ pre.es.done) => ret.terminated

\* C17, witness: a step returned terminated = true in an episode already
\* terminated, with none of the three conditions holding at that step.
C17_Witness ==
    /\ StepReturned
    /\ pre.es.done
    /\ ret.terminated
    /\ ret.reason = ""
    /\ ~AtGoal
    /\ self.steps_since_improvement <= max_steps_without_improvement
    /\ self.collision_count <= collision_limit

\* C18: the observation returned by a successful reset is a scan delivered
\* after the set_pose request and the calibration of that reset: the wait
\* starts with no observation held, so neither the observation of the previous
\* episode nor a scan delivered during the calibration loop is there to be
\* returned, and what reset returns is the scan stored during its wait.
C18_ResetReturnsScanOfItsWait ==
    /\ (pc = "reset_wait" /\ Fresh = <<>>) => (self.state = NoneState /\ initial_state = 0)
    /\ ResetReturned =>
          /\ <<"reset_calib", "odom">> \in call_log.pumped
          /\ <<"reset_wait", "scan">> \in call_log.pumped
          /\ Len(Fresh) = 1
          /\ ret.obs = [id |-> Fresh[1].id, ranges |-> Fresh[1].ranges]
          /\ self.state = ret.obs

\* C18, witness: reset was called with the colliding observation of the last
\* step held, a scan was delivered during its calibration loop, and it
\* returned the scan of its wait, which is not colliding.
C18_Witness ==
    /\ ResetReturned
    /\ pre.es.collision
    /\ <<"reset_calib", "scan">> \in call_log.pumped
    /\ Len(Fresh) = 1
    /\ ret.obs.ranges = Fresh[1].ranges
    /\ ~Colliding

\* The calibration that a pose sample computes
CalibrationFrom(msg) ==
    [odom_calibrated |-> TRUE,
     odom_position_offset |-> Sub(msg.pos, start_position),
     yaw_offset |-> desired_yaw - msg.yaw]

\* C19 as stated: no pose sample delivered while a step is waiting for its
\* observation computes or changes the calibration, after whatever calls.
C19_StepNeverCalibrates ==
    ret.call = "step" => Calibration(self) = pre.calibration

\* C19, amended: the calibration is computed by the first pose sample
\* delivered after a reset has begun its calibration loop, wherever that
\* sample is delivered.  A step called with the frame calibrated leaves the
\* calibration as it was; a step called with the frame uncalibrated, which is
\* the case only after a reset that ended in CalibrationTimeout (and failed
\* set_pose requests after it), is calibrated by the first pose sample of its
\* wait and left uncalibrated if there is none.
C19_StepCalibratesOnlyAfterCalibrationTimeout ==
    /\ self.odom_calibrated <=> first_pose # NoPose
    /\ self.odom_calibrated => Calibration(self) = CalibrationFrom(first_pose)
    /\ ret.call = "step" =>
          IF ~pre.calibration.odom_calibrated /\ <<"step_wait", "odom">> \in call_log.pumped
          THEN Calibration(self) = CalibrationFrom(first_pose)
          ELSE Calibration(self) = pre.calibration
    /\ (pc = "idle" /\ ret.call = "reset" /\ ~self.odom_calibrated) =>
          \/ ret.outcome = "CalibrationTimeout"
          \/ ret.outcome = "WorldResetFailure" /\ ~pre.calibration.odom_calibrated

\* C19, witness: a step called after a reset that ended in CalibrationTimeout
\* returned with the frame calibrated by a pose sample of its wait.
C19_Witness ==
    /\ StepReturned
    /\ ~pre.calibration.odom_calibrated
    /\ <<"step_wait", "odom">> \in call_log.pumped
    /\ Calibration(self) = CalibrationFrom(first_pose)
    /\ self.odom_position_offset # <<0, 0>>

\* C19, a second case: a step called with the frame calibrated took a pose
\* sample other than the calibrating one and left the calibration alone.
C19_WitnessCalibrated ==
    /\ StepReturned
    /\ pre.calibration.odom_calibrated
    /\ <<"step_wait", "odom">> \in call_log.pumped
    /\ last_pose # first_pose
    /\ Calibration(self) = pre.calibration

\* C20: every blocking wait ends.  While the thread keeps running, a step
\* call that is waiting is followed by its return or by ObservationTimeout,
\* and a reset call that is in its calibration loop or waiting is followed by
\* its return, by CalibrationTimeout or by ObservationTimeout (a
\* WorldResetFailure is raised before either loop), whether or not any pose
\* sample or scan is delivered.
C20_EveryCallEnds ==
    /\ (pc = "step_wait") ~>
          (pc = "idle" /\ ret.call = "step"
                       /\ ret.outcome \in {"ok", "ObservationTimeout"})
    /\ (pc \in {"reset_calib", "reset_wait"}) ~>
          (pc = "idle" /\ ret.call = "reset"
                       /\ ret.outcome \in {"ok", "CalibrationTimeout", "ObservationTimeout"})

\* C20, witness: a reset ended in CalibrationTimeout with no callback
\* delivered during the whole call.
C20_Witness ==
    /\ pc = "idle"
    /\ ret.call = "reset"
    /\ ret.outcome = "CalibrationTimeout"
    /\ call_log.pumped = {}

\* C20, a second case: a step ended in ObservationTimeout with no callback
\* delivered, after a reset on which no scan had arrived either.
C20_WitnessStep ==
    /\ StepTimedOut
    /\ call_log.pumped = {}
    /\ self.state = NoneState

====
